---- MODULE Spec2Model ----
(***************************************************************************)
(* State-machine model of the trace/visualisation engine of                *)
(* src/ngspiceSimulation/plot_window.py (class plotWindow) and of the      *)
(* standalone entry point src/ngspiceSimulation/plotting_utils.py.         *)
(*                                                                         *)
(* Python dicts are modelled as functions with a finite domain, lists as   *)
(* sequences, reals as integers (thickness in tenths of a pixel).          *)
(***************************************************************************)
EXTENDS Integers, Sequences, FiniteSets, Bags, TLC

VARIABLES
    ops,                \* number of user operations handled so far (bounds the runs)
    pc,                 \* "running" | "closed" | "crashed": life of the widget
    plot_type,          \* self.plot_type[0]: analysis kind of the dataset
    volts_length,       \* self.volts_length: indices below it are voltage-like
    NBList,             \* self.obj_dataext.NBList: index -> name (mutated by rename)
    trace_names,        \* self.trace_names
    trace_colors,       \* self.trace_colors
    trace_thickness,    \* self.trace_thickness
    trace_style,        \* self.trace_style
    trace_visibility,   \* self.trace_visibility
    selected,           \* QListWidgetItem.isSelected() of every list item
    active_traces,      \* self.active_traces: index -> drawn line
    timing_annotations, \* self.timing_annotations: index -> final-value text
    timing_check,       \* self.timing_check.isChecked()
    legend_check,       \* self.legend_check.isChecked()
    config,             \* self.config (in memory)
    config_file,        \* ~/.pythonPlotting/config.json
    tmp_file,           \* ~/.pythonPlotting/config.tmp
    cursor_lines,       \* self.cursor_lines
    cursor_positions,   \* self.cursor_positions
    has_axes,           \* hasattr(self, 'axes'): a refresh has created the axes
    axes_cursors,       \* the axvline artists currently on the axes (a bag)
    cursor_labels,      \* texts of cursor1_label, cursor2_label: << >> is "Not set"
    delta_label,        \* self.delta_label text: << >> is "Delta: --", <<d>> is "Delta: d"
    measure_label,      \* self.measure_label text: << >> is "", <<f>> is "Freq: f Hz"
    last_given,         \* history: the position last given to slot 0 / slot 1 since the last clear
    func_tokens,        \* self.func_input.text(), split at blanks
    func_result,        \* what the last plot_function call did
    x_data,             \* self.obj_dataext.x: the independent axis, in nanoseconds
    threshold_spinbox,  \* self.threshold_spinbox.value(), in tenths of a volt
    threshold_touched,  \* history: the user has changed the threshold control
    vertical_spacing,   \* self.vertical_spacing, in hundredths
    logic_threshold,    \* self.logic_threshold, in tenths of a volt: << >> is None
    xlabel,             \* the x label of the axes of the last refresh
    line_data,          \* x and y data of the lines in active_traces
    voltage_range,      \* vmin, vmax of the last plot_timing_diagram that drew: << >> before
    argv,               \* sys.argv of the standalone program
    file_path,          \* self.file_path of the window: << >> before it is constructed
    project_name,       \* self.project_name of the window: << >> before it is constructed
    yticks,             \* y ticks of the timing view: index -> position, label text, label colour
    xlim,               \* x limits of the axes
    ylim                \* y limits of the axes

dataset  == <<plot_type, volts_length, x_data>>
regvars  == <<NBList, trace_names, trace_colors, trace_thickness, trace_style,
              trace_visibility, selected, active_traces, timing_annotations,
              timing_check, legend_check>>
diskvars == <<config, config_file, tmp_file>>
curvars  == <<cursor_lines, cursor_positions, has_axes, axes_cursors,
              cursor_labels, delta_label, measure_label, last_given>>
funcvars == <<func_tokens, func_result>>
timingctl == <<threshold_spinbox, threshold_touched, vertical_spacing>>
drawvars == <<logic_threshold, xlabel, line_data, voltage_range>>
clivars  == <<argv, file_path, project_name>>
axesvars == <<yticks, xlim, ylim>>
vars     == <<ops, pc, dataset, regvars, diskvars, curvars, funcvars, timingctl, drawvars,
              clivars, axesvars>>

----------------------------------------------------------------------------
(* Program constants *)

VIBRANT_COLOR_PALETTE ==
    << "#E53935", "#1E88E5", "#43A047", "#FB8C00", "#8E24AA", "#00ACC1",
       "#D81B60", "#6D4C41", "#FDD835", "#039BE5", "#C0CA33", "#37474F" >>

\* thickness in tenths: 1.5 px
DEFAULT_LINE_THICKNESS == 15

DEFAULT_STYLE == "-"

LINE_STYLES == {"-", "--", ":", "steps-post"}

THICKNESS_OPTIONS == {10, 15, 20, 30}

\* DEFAULT_VERTICAL_SPACING = 1.2, in hundredths
DEFAULT_VERTICAL_SPACING == 120

\* TIME_UNIT_THRESHOLD_NS = 1e-6 s, in nanoseconds
TIME_UNIT_THRESHOLD_NS == 1000

\* TIME_UNIT_THRESHOLD_US = 1e-3 s, in nanoseconds
TIME_UNIT_THRESHOLD_US == 1000000

\* TIME_UNIT_THRESHOLD_MS = 1 s, in nanoseconds
TIME_UNIT_THRESHOLD_MS == 1000000000

\* threshold_spinbox.setRange(-100, 100), in tenths of a volt
THRESHOLD_MINIMUM == -1000

\* plotting_utils.py
DEFAULT_FILE_PATH == "."

DEFAULT_PROJECT_NAME == "Test Project"

AC_ANALYSIS == "AC"
TRANSIENT_ANALYSIS == "TRANSIENT"
DC_ANALYSIS == "DC"

----------------------------------------------------------------------------
(* The dataset handed over by the data provider, and the inputs tried *)

\* names of the loaded dataset, in provider order (index i is OrigNames[i+1])
OrigNames == <<"v(in)", "i(r1)">>

NumTraces == Len(OrigNames)

Indices == 0 .. (NumTraces - 1)

\* self.obj_dataext.y: the samples of every trace; the second trace has both the
\* largest and the smallest sample of the dataset
SampleData == [i \in Indices |-> IF i = 0 THEN <<1, 2, 4>> ELSE <<5, 1, 0>>]

\* self.obj_dataext.x of the loaded dataset, in nanoseconds
DefaultAxis == <<0, 500000, 1000000>>

\* the axes tried for the timing view: spans just below 1e-6 s, of exactly
\* 1e-6 s, of 5e-7 s ending after 1e-6 s, of exactly 1e-3 s, of exactly 1 s,
\* and an axis of one sample
AxisChoices ==
    { <<0, 500, 999>>, <<0, 500, 1000>>, <<1500, 1750, 2000>>, DefaultAxis,
      <<0, 500000000, 1000000000>>, <<7>> }

\* values given to the threshold control: its minimum, and 2.0 V
ThresholdInputs == {THRESHOLD_MINIMUM, 20}

\* values given to the spacing slider
SpacingInputs == {150}

\* colours a user picks in the colour menu / dialog
ColorChoices == {"#1E88E5"}

ThicknessChoices == {20}

StyleChoices == {"--", "steps-post"}

\* texts typed into the rename dialog: empty, a name another trace has, a new one
RenameInputs == {"", "v(in)", "out"}

PlotTypes == {AC_ANALYSIS, TRANSIENT_ANALYSIS, DC_ANALYSIS}

\* user operations explored in one run
MaxOps == 3

\* canvas x coordinates a click can give: 0 .. MaxPos
MaxPos == 2

Positions == 0 .. MaxPos

\* tokens of the expressions typed into the function box ("" comes from a
\* doubled or trailing blank)
FuncTokens == {"v(in)", "i(r1)", "+", "/", "**", "vs", ""}

\* longest expression tried, in tokens
MaxTokens == 3

FuncInputs == UNION {[1 .. n -> FuncTokens] : n \in 1 .. MaxTokens}

\* sys.argv[0]
ProgramName == "plotting_utils.py"

\* most words given after the program name
MaxArgs == 3

\* the command lines tried: up to MaxArgs words after the program name
ArgvInputs ==
    {<<ProgramName>> \o a :
        a \in UNION {[1 .. n -> {"/tmp/sim", "Proj", "", "x"}] : n \in 0 .. MaxArgs}}

----------------------------------------------------------------------------
(* Helpers on dicts *)

EmptyDict == [k \in {} |-> 0]

Values(d) == {d[k] : k \in DOMAIN d}

\* dict d with d[k] = v set
Put(d, k, v) == [j \in DOMAIN d \cup {k} |-> IF j = k THEN v ELSE d[j]]

Max(S) == CHOOSE m \in S : \A n \in S : n <= m

Min(S) == CHOOSE m \in S : \A n \in S : m <= n

\* the orderings of a finite set, as sequences
Orderings(S) ==
    {s \in [1 .. Cardinality(S) -> S] : \A a, b \in 1 .. Cardinality(S) : a # b => s[a] # s[b]}

----------------------------------------------------------------------------
(* Configuration and its file *)

\* marks a top-level key that is not in the dict
NoTheme == "<no theme key>"

DefaultConfig ==
    [trace_colours |-> EmptyDict, trace_thickness |-> EmptyDict,
     trace_style |-> EmptyDict, experimental_acdc |-> FALSE, theme |-> NoTheme]

Absent == [st |-> "absent", obj |-> DefaultConfig]

\* a file cut off in the middle of json.dump: its content does not parse
Partial == [st |-> "partial", obj |-> DefaultConfig]

Complete(cfg) == [st |-> "complete", obj |-> cfg]

\* a snapshot left by an earlier session: an entry of this dataset, entries
\* of a name this dataset does not have, and the retired theme field
SavedLegacy ==
    [trace_colours |-> [n \in {"v(in)", "zz"} |-> IF n = "zz" THEN "#00ff00" ELSE "#abcdef"],
     trace_thickness |-> [n \in {"zz"} |-> 30],
     trace_style |-> [n \in {"v(in)"} |-> "--"],
     experimental_acdc |-> TRUE, theme |-> "dark"]

InitFiles == {Absent, Complete(SavedLegacy)}

\* a load that keeps the theme field
load_config_keep(file) ==
    IF file.st = "complete" THEN file.obj ELSE DefaultConfig

\* json.load with the 'theme' key deleted; the default dict when there is no
\* file or it does not parse
load_config(file) ==
    IF file.st = "complete"
    THEN [file.obj EXCEPT !.theme = NoTheme]
    ELSE DefaultConfig

\* self.trace_names.get(idx, self.obj_dataext.NBList[idx])
NameOf(names, nblist, idx) ==
    IF idx \in DOMAIN names THEN names[idx] ELSE nblist[idx]

\* {name(idx): value for idx, value in d.items()}: a later index overwrites
\* an earlier one that has the same name
SnapshotMap(names, nblist, d) ==
    [nm \in {NameOf(names, nblist, i) : i \in DOMAIN d} |->
        d[Max({i \in DOMAIN d : NameOf(names, nblist, i) = nm})]]

\* the value of self.config after the three assignments of save_config
save_config(cfg, names, nblist, colors, thickness, style) ==
    [cfg EXCEPT !.trace_colours = SnapshotMap(names, nblist, colors),
                !.trace_thickness = SnapshotMap(names, nblist, thickness),
                !.trace_style = SnapshotMap(names, nblist, style)]

\* how far the write of save_config gets before the process dies, if it does
SaveOutcomes == {"ok", "crash_mid_write", "crash_before_replace"}

\* a save that writes straight into the configuration file
FilesAfterSave_direct(cfile, tfile, newcfg, outcome) ==
    CASE outcome = "ok" ->
            [config_file |-> Complete(newcfg), tmp_file |-> tfile]
      [] outcome = "crash_mid_write" ->
            [config_file |-> Partial, tmp_file |-> tfile]
      [] outcome = "crash_before_replace" ->
            [config_file |-> Complete(newcfg), tmp_file |-> tfile]

\* the two files after open(temp_file, 'w'), json.dump, temp_file.replace
FilesAfterSave(cfile, tfile, newcfg, outcome) ==
    CASE outcome = "ok" ->
            [config_file |-> Complete(newcfg), tmp_file |-> Absent]
      [] outcome = "crash_mid_write" ->
            [config_file |-> cfile, tmp_file |-> Partial]
      [] outcome = "crash_before_replace" ->
            [config_file |-> cfile, tmp_file |-> Complete(newcfg)]

\* save_config as a step: memory, files and whether the process survives
Persist(names, nblist, colors, thickness, style, outcome, pcAfter) ==
    LET newcfg == save_config(config, names, nblist, colors, thickness, style)
        files  == FilesAfterSave(config_file, tmp_file, newcfg, outcome)
    IN  /\ config' = newcfg
        /\ config_file' = files.config_file
        /\ tmp_file' = files.tmp_file
        /\ pc' = IF outcome = "ok" THEN pcAfter ELSE "crashed"

----------------------------------------------------------------------------
(* Dataset load *)

NBList0 == [i \in Indices |-> OrigNames[i + 1]]

PaletteColor(i) == VIBRANT_COLOR_PALETTE[(i % Len(VIBRANT_COLOR_PALETTE)) + 1]

\* populate_waveform_list: saved colour by name, else the palette colour of the index
PopulateColors(cfg, nblist) ==
    [i \in Indices |->
        IF nblist[i] \in DOMAIN cfg.trace_colours
        THEN cfg.trace_colours[nblist[i]]
        ELSE PaletteColor(i)]

PopulateThickness(cfg, nblist) ==
    [i \in Indices |->
        IF nblist[i] \in DOMAIN cfg.trace_thickness
        THEN cfg.trace_thickness[nblist[i]]
        ELSE DEFAULT_LINE_THICKNESS]

PopulateStyle(cfg, nblist) ==
    [i \in Indices |->
        IF nblist[i] \in DOMAIN cfg.trace_style
        THEN cfg.trace_style[nblist[i]]
        ELSE DEFAULT_STYLE]

----------------------------------------------------------------------------
(* Colour allocation *)

\* QColor.fromHsvF((0.618033988749895 * n) % 1.0, 0.7, 0.8).name()
GeneratedColors ==
    << "#3d67cc", "#91cc3d", "#cc3dba", "#3dccb4", "#cc8a3d", "#613dcc", "#43cc3d",
       "#cc3d6d", "#3d97cc", "#c0cc3d", "#ae3dcc", "#3dcc84", "#cc5b3d", "#3d49cc" >>

GeneratedColor(n) == IF n = 0 THEN "#cc3d3d" ELSE GeneratedColors[n]

\* a scan that takes the last unused palette colour
FirstAvailable_last(used) ==
    LET free == {k \in 1 .. Len(VIBRANT_COLOR_PALETTE) : VIBRANT_COLOR_PALETTE[k] \notin used}
    IN  IF free = {} THEN 0 ELSE CHOOSE k \in free : \A m \in free : k >= m

\* position of available_colors[0] in the palette, 0 when the list is empty
FirstAvailable(used) ==
    LET free == {k \in 1 .. Len(VIBRANT_COLOR_PALETTE) : VIBRANT_COLOR_PALETTE[k] \notin used}
    IN  IF free = {} THEN 0 ELSE CHOOSE k \in free : \A m \in free : k <= m

assign_trace_color(colors, index) ==
    LET k == FirstAvailable(Values(colors))
    IN  IF k # 0
        THEN Put(colors, index, VIBRANT_COLOR_PALETTE[k])
        ELSE Put(colors, index, GeneratedColor(Cardinality(DOMAIN colors)))

----------------------------------------------------------------------------
(* Drawing *)

Line(color, linewidth, linestyle, drawstyle) ==
    [visible |-> TRUE, color |-> color, linewidth |-> linewidth,
     linestyle |-> linestyle, drawstyle |-> drawstyle]

Get(d, k, default) == IF k \in DOMAIN d THEN d[k] ELSE default

VisibleIndices(vis) == {i \in DOMAIN vis : vis[i]}

\* the lines plot_timing_diagram leaves in active_traces
plot_timing_diagram(vis, colors, thickness) ==
    [i \in VisibleIndices(vis) |->
        Line(Get(colors, i, "blue"), Get(thickness, i, DEFAULT_LINE_THICKNESS),
             "-", "steps-post")]

\* the lines _plot_analysis_data leaves in active_traces
plot_analysis_data(vis, colors, thickness, style, ptype) ==
    [i \in VisibleIndices(vis) |->
        LET st == Get(style, i, "-")
        IN  IF st = "steps-post" /\ ptype \in {TRANSIENT_ANALYSIS, DC_ANALYSIS}
            THEN Line(Get(colors, i, PaletteColor(i)),
                      Get(thickness, i, DEFAULT_LINE_THICKNESS), "-", "steps-post")
            ELSE Line(Get(colors, i, PaletteColor(i)),
                      Get(thickness, i, DEFAULT_LINE_THICKNESS),
                      IF st = "steps-post" THEN "-" ELSE st, "default")]

\* active_traces after refresh_plot
refresh_plot(vis, colors, thickness, style, timing, ptype) ==
    IF timing
    THEN plot_timing_diagram(vis, colors, thickness)
    ELSE plot_analysis_data(vis, colors, thickness, style, ptype)

\* self.obj_dataext.y[i], as long as the axis
Samples(x, i) == SubSeq(SampleData[i], 1, Len(x))

\* a pool of every visible trace
voltage_indices_all(vis, volts) == VisibleIndices(vis)

\* voltage_indices of plot_timing_diagram: the visible voltage traces, all
\* visible traces when no voltage trace is visible
voltage_indices(vis, volts) ==
    LET voltage == {i \in VisibleIndices(vis) : i < volts}
    IN  IF voltage = {} THEN VisibleIndices(vis) ELSE voltage

\* all_voltage_data, as a set
all_voltage_data(vis, volts, x) ==
    UNION {{Samples(x, i)[j] : j \in 1 .. Len(x)} : i \in voltage_indices(vis, volts)}

\* vmax of plot_timing_diagram
GlobalMax(vis, volts, x) == Max(all_voltage_data(vis, volts, x))

\* vmin of plot_timing_diagram
GlobalMin(vis, volts, x) == Min(all_voltage_data(vis, volts, x))

\* self.logic_threshold after lines 1414-1418, in tenths of a volt
effective_threshold(spin, vmax) ==
    IF spin = THRESHOLD_MINIMUM THEN 7 * vmax ELSE spin

\* a ranking in registry order
Rank_forward(vis, i) == Cardinality({k \in VisibleIndices(vis) : k < i})

\* rank of enumerate(visible_indices[::-1])
Rank(vis, i) == Cardinality({k \in VisibleIndices(vis) : k > i})

\* self.timing_annotations after refresh_plot: plot_timing_diagram stores one
\* text per visible trace, entries of other traces are left as they are. The x
\* of a text, time_data[-1] + 0.01 * span * (1 + 0.1 * (rank % 3)) seconds, is
\* held as the last sample m (in 10^e s) and the thousandths of the span added
refresh_annotations(ann, vis, colors, timing) ==
    IF timing
    THEN [i \in DOMAIN ann \cup VisibleIndices(vis) |->
            IF i \in VisibleIndices(vis)
            THEN [color |-> Get(colors, i, "blue"),
                  x |-> [m |-> x_data[Len(x_data)], e |-> -9,
                         span |-> x_data[Len(x_data)] - x_data[1],
                         per_mille |-> 10 + (Rank(vis, i) % 3)]]
            ELSE ann[i]]
    ELSE ann

\* a binarization that takes a sample on the threshold for high
logic_offset_inclusive(raw, threshold, vmax, rank, spacing) ==
    [j \in 1 .. Len(raw) |->
        (IF raw[j] * 10 >= threshold THEN vmax ELSE 0) * 100 + rank * (spacing * vmax)]

\* logic_offset, in hundredths of a volt
logic_offset(raw, threshold, vmax, rank, spacing) ==
    [j \in 1 .. Len(raw) |->
        (IF raw[j] * 10 > threshold THEN vmax ELSE 0) * 100 + rank * (spacing * vmax)]

\* a unit choice that gives a span on a threshold the smaller unit
time_unit_inclusive(x) ==
    IF Len(x) < 2 THEN [unit |-> "s", exp |-> 0]
    ELSE LET time_span == x[Len(x)] - x[1]
         IN  IF time_span <= TIME_UNIT_THRESHOLD_NS THEN [unit |-> "ns", exp |-> 9]
             ELSE IF time_span <= TIME_UNIT_THRESHOLD_US THEN [unit |-> "us", exp |-> 6]
             ELSE IF time_span <= TIME_UNIT_THRESHOLD_MS THEN [unit |-> "ms", exp |-> 3]
             ELSE [unit |-> "s", exp |-> 0]

\* unit and scale of set_time_axis_label: the scale 1e9, 1e6, 1e3, 1 is held as
\* its exponent; an axis of fewer than 2 samples is labelled in seconds
time_unit(x) ==
    IF Len(x) < 2 THEN [unit |-> "s", exp |-> 0]
    ELSE LET time_span == x[Len(x)] - x[1]
         IN  IF time_span < TIME_UNIT_THRESHOLD_NS THEN [unit |-> "ns", exp |-> 9]
             ELSE IF time_span < TIME_UNIT_THRESHOLD_US THEN [unit |-> "us", exp |-> 6]
             ELSE IF time_span < TIME_UNIT_THRESHOLD_MS THEN [unit |-> "ms", exp |-> 3]
             ELSE [unit |-> "s", exp |-> 0]

\* a scaling that is applied to its own result once more
scaled_x_twice(x, exp) == [j \in 1 .. Len(x) |-> [m |-> x[j], e |-> exp + exp - 9]]

\* time_data * scale: sample m nanoseconds is m * 10^-9 s, times 10^exp
scaled_x(x, exp) == [j \in 1 .. Len(x) |-> [m |-> x[j], e |-> exp - 9]]

\* the x label _plot_analysis_data sets
AnalysisLabel(ptype) ==
    IF ptype = AC_ANALYSIS THEN "freq-->"
    ELSE IF ptype = TRANSIENT_ANALYSIS THEN "time-->"
    ELSE "Voltage Sweep(V)-->"

\* data of the lines plot_timing_diagram draws, after set_time_axis_label
timing_line_data(vis, volts, x, spin, spacing) ==
    LET vmax == GlobalMax(vis, volts, x)
    IN  [i \in VisibleIndices(vis) |->
            [xdata |-> scaled_x(x, time_unit(x).exp),
             ydata |-> logic_offset(Samples(x, i), effective_threshold(spin, vmax), vmax,
                                    Rank(vis, i), spacing)]]

\* data of the lines _plot_analysis_data draws (y in hundredths of a volt)
analysis_line_data(vis, x) ==
    [i \in VisibleIndices(vis) |->
        [xdata |-> scaled_x(x, 0),
         ydata |-> [j \in 1 .. Len(x) |-> Samples(x, i)[j] * 100]]]

\* what refresh_plot leaves of threshold, x label and line data
RefreshData(vis, timing, spin, spacing) ==
    IF timing
    THEN IF VisibleIndices(vis) = {}
         THEN /\ UNCHANGED <<logic_threshold, voltage_range>>
              /\ xlabel' = ""
              /\ line_data' = EmptyDict
         ELSE /\ voltage_range' = << GlobalMin(vis, volts_length, x_data),
                                     GlobalMax(vis, volts_length, x_data) >>
              /\ logic_threshold' =
                    << effective_threshold(spin, GlobalMax(vis, volts_length, x_data)) >>
              /\ xlabel' = time_unit(x_data).unit
              /\ line_data' = timing_line_data(vis, volts_length, x_data, spin, spacing)
    ELSE /\ UNCHANGED <<logic_threshold, voltage_range>>
         /\ xlabel' = AnalysisLabel(plot_type)
         /\ line_data' = analysis_line_data(vis, x_data)

\* limits matplotlib scales to the data by itself
AutoLimits == [auto |-> TRUE, lo |-> 0, hi |-> 0, margin |-> 0]

\* the ticks after update_timing_tick_colors: the label of rank r takes the colour
\* of the visible trace of rank r
update_timing_tick_colors(ticks, vis, colors) ==
    [r \in DOMAIN ticks |->
        IF \E i \in VisibleIndices(vis) : Rank(vis, i) = r /\ i \in DOMAIN colors
        THEN [ticks[r] EXCEPT !.color =
                 colors[CHOOSE i \in VisibleIndices(vis) : Rank(vis, i) = r]]
        ELSE ticks[r]]

\* the y ticks set_yticks / set_yticklabels leave, by rank (hundredths of a volt);
\* the labels come out in the colour of the tick labels of the theme
timing_ticks(vis, names, nblist, volts, x, spacing) ==
    LET vmax == GlobalMax(vis, volts, x)
    IN  [r \in 0 .. (Cardinality(VisibleIndices(vis)) - 1) |->
            LET idx == CHOOSE i \in VisibleIndices(vis) : Rank(vis, i) = r
            IN  [y |-> r * (spacing * vmax) + 50 * vmax,
                 label |-> NameOf(names, nblist, idx),
                 color |-> "text",
                 trace |-> idx]]

\* what refresh_plot leaves of the ticks and the limits of the axes
RefreshAxes(vis, colors, names, timing, spacing) ==
    IF timing /\ VisibleIndices(vis) # {}
    THEN LET vmax == GlobalMax(vis, volts_length, x_data)
         IN  /\ yticks' = update_timing_tick_colors(
                              timing_ticks(vis, names, NBList, volts_length, x_data, spacing),
                              vis, colors)
             /\ xlim' = [auto |-> FALSE, lo |-> [m |-> x_data[1], e |-> -9],
                         hi |-> [m |-> x_data[Len(x_data)], e |-> -9], margin |-> 0]
             /\ ylim' = [auto |-> FALSE, lo |-> -50 * vmax,
                         hi |-> Cardinality(VisibleIndices(vis)) * (spacing * vmax) + 10 * vmax,
                         margin |-> 0]
    ELSE /\ yticks' = << >>
         /\ xlim' = AutoLimits
         /\ ylim' = AutoLimits

KeepData == UNCHANGED <<drawvars, axesvars>>

\* fig.clear() of refresh_plot: the axes are new and every cursor marker is gone,
\* while cursor_lines still holds the removed artists
RefreshSurface ==
    /\ has_axes' = TRUE
    /\ axes_cursors' = EmptyBag
    /\ cursor_lines' = [k \in DOMAIN cursor_lines |-> [cursor_lines[k] EXCEPT !.live = FALSE]]

KeepSurface == UNCHANGED <<has_axes, axes_cursors, cursor_lines>>

----------------------------------------------------------------------------
(* Initial state: the widget right after construction *)

NoCursors ==
    /\ cursor_lines = << >>
    /\ cursor_positions = << >>
    /\ has_axes = FALSE
    /\ axes_cursors = EmptyBag
    /\ cursor_labels = << << >>, << >> >>
    /\ delta_label = << >>
    /\ measure_label = << >>
    /\ last_given = << << >>, << >> >>

NoFunction ==
    /\ func_tokens = << >>
    /\ func_result = [status |-> "none", series |-> << >>]

NoTiming ==
    /\ yticks = << >>
    /\ xlim = AutoLimits
    /\ ylim = AutoLimits
    /\ threshold_spinbox = 0
    /\ threshold_touched = FALSE
    /\ vertical_spacing = DEFAULT_VERTICAL_SPACING
    /\ logic_threshold = << >>
    /\ voltage_range = << >>
    /\ xlabel = ""
    /\ line_data = EmptyDict

\* parse_command_line_arguments: both arguments are taken when more than two
\* words are on the command line, else both defaults
parse_command_line_arguments(args) ==
    IF Len(args) > 2
    THEN [file_path |-> args[2], project_name |-> args[3]]
    ELSE [file_path |-> DEFAULT_FILE_PATH, project_name |-> DEFAULT_PROJECT_NAME]

\* the program was started without arguments
DefaultLaunch ==
    /\ argv = <<ProgramName>>
    /\ file_path = << parse_command_line_arguments(argv).file_path >>
    /\ project_name = << parse_command_line_arguments(argv).project_name >>

Init ==
    /\ ops = 0
    /\ pc = "running"
    /\ plot_type \in PlotTypes
    /\ volts_length = 1
    /\ config_file \in InitFiles
    /\ tmp_file = Absent
    /\ config = load_config(config_file)
    /\ NBList = NBList0
    /\ trace_names = NBList0
    /\ trace_colors = PopulateColors(config, NBList0)
    /\ trace_thickness = PopulateThickness(config, NBList0)
    /\ trace_style = PopulateStyle(config, NBList0)
    /\ trace_visibility = [i \in Indices |-> FALSE]
    /\ selected = [i \in Indices |-> FALSE]
    /\ active_traces = EmptyDict
    /\ timing_annotations = EmptyDict
    /\ timing_check = FALSE
    /\ legend_check = FALSE
    /\ NoCursors
    /\ NoFunction
    /\ x_data = DefaultAxis
    /\ NoTiming
    /\ DefaultLaunch

\* one more user operation is handled
Step == ops < MaxOps /\ ops' = ops + 1

----------------------------------------------------------------------------
(* Visibility *)

\* a toggle that gives the colour of a trace back when the trace is shown
ToggleColors_release(colors, index, sel) ==
    IF sel /\ index \in DOMAIN colors
    THEN [j \in DOMAIN colors \ {index} |-> colors[j]]
    ELSE colors

\* on_waveform_toggle: "if item.isSelected(): if index not in self.trace_colors"
ToggleColors(colors, index, sel) ==
    IF sel /\ index \notin DOMAIN colors
    THEN assign_trace_color(colors, index)
    ELSE colors

\* a click on list item i (MultiSelection: the click flips the item's selection)
OnWaveformToggle(i) ==
    /\ Step
    /\ pc = "running"
    /\ LET sel  == ~selected[i]
           cols == ToggleColors(trace_colors, i, sel)
           vis  == [trace_visibility EXCEPT ![i] = sel]
       IN  /\ selected' = [selected EXCEPT ![i] = sel]
           /\ trace_visibility' = vis
           /\ trace_colors' = cols
           /\ IF sel /\ i \notin DOMAIN trace_colors
              THEN \E o \in SaveOutcomes :
                      Persist(trace_names, NBList, cols, trace_thickness, trace_style, o, "running")
              ELSE UNCHANGED <<pc, diskvars>>
           /\ active_traces' = refresh_plot(vis, cols, trace_thickness, trace_style,
                                            timing_check, plot_type)
           /\ timing_annotations' = refresh_annotations(timing_annotations, vis, cols,
                                                        timing_check)
    /\ RefreshSurface
    /\ RefreshData(trace_visibility', timing_check, threshold_spinbox, vertical_spacing)
    /\ RefreshAxes(trace_visibility', trace_colors', trace_names, timing_check, vertical_spacing)
    /\ UNCHANGED <<dataset, NBList, trace_names, trace_thickness, trace_style,
                   timing_check, legend_check, cursor_positions, cursor_labels,
                   delta_label, measure_label, last_given, funcvars, clivars, timingctl>>

\* the colours after the loop of select_all_waveforms has visited indices k..
RECURSIVE AssignMissing(_, _)
AssignMissing(colors, k) ==
    IF k \notin Indices THEN colors
    ELSE AssignMissing(IF k \in DOMAIN colors THEN colors
                       ELSE assign_trace_color(colors, k), k + 1)

SelectAllWaveforms ==
    /\ Step
    /\ pc = "running"
    /\ LET cols == AssignMissing(trace_colors, 0)
           vis  == [i \in Indices |-> TRUE]
       IN  /\ selected' = [i \in Indices |-> TRUE]
           /\ trace_visibility' = vis
           /\ trace_colors' = cols
           /\ IF Indices \subseteq DOMAIN trace_colors
              THEN UNCHANGED <<pc, diskvars>>
              ELSE \E o \in SaveOutcomes :
                      Persist(trace_names, NBList, cols, trace_thickness, trace_style, o, "running")
           /\ active_traces' = refresh_plot(vis, cols, trace_thickness, trace_style,
                                            timing_check, plot_type)
           /\ timing_annotations' = refresh_annotations(timing_annotations, vis, cols,
                                                        timing_check)
    /\ RefreshSurface
    /\ RefreshData(trace_visibility', timing_check, threshold_spinbox, vertical_spacing)
    /\ RefreshAxes(trace_visibility', trace_colors', trace_names, timing_check, vertical_spacing)
    /\ UNCHANGED <<dataset, NBList, trace_names, trace_thickness, trace_style,
                   timing_check, legend_check, cursor_positions, cursor_labels,
                   delta_label, measure_label, last_given, funcvars, clivars, timingctl>>

\* a loop that skips the first trace
deselect_visibility_skip(vis) == [i \in DOMAIN vis |-> IF i = 0 THEN vis[i] ELSE FALSE]

\* "for index in self.trace_visibility: self.trace_visibility[index] = False"
deselect_visibility(vis) == [i \in DOMAIN vis |-> FALSE]

\* the state change of deselect_all_waveforms
DeselectAll ==
    /\ selected' = [i \in Indices |-> FALSE]
    /\ trace_visibility' = deselect_visibility(trace_visibility)
    /\ active_traces' = refresh_plot(trace_visibility', trace_colors, trace_thickness,
                                     trace_style, timing_check, plot_type)
    /\ RefreshSurface
    /\ RefreshData(trace_visibility', timing_check, threshold_spinbox, vertical_spacing)
    /\ RefreshAxes(trace_visibility', trace_colors, trace_names, timing_check, vertical_spacing)
    /\ UNCHANGED <<pc, dataset, NBList, trace_names, trace_colors, trace_thickness,
                   trace_style, timing_check, legend_check, diskvars,
                   cursor_positions, cursor_labels, delta_label, measure_label,
                   last_given, funcvars, clivars, timingctl>>

DeselectAllWaveforms ==
    /\ Step
    /\ pc = "running"
    /\ DeselectAll
    /\ timing_annotations' =
          refresh_annotations(timing_annotations, trace_visibility', trace_colors, timing_check)

\* clear_plot: clears the timing annotations, then deselect_all_waveforms
ClearPlot ==
    /\ Step
    /\ pc = "running"
    /\ DeselectAll
    /\ timing_annotations' =
          refresh_annotations(EmptyDict, trace_visibility', trace_colors, timing_check)

----------------------------------------------------------------------------
(* Context menu of the waveform list *)

\* show_list_context_menu: a right-click on an unselected item selects only it
MenuSelection(sel, i) ==
    IF sel[i] THEN sel ELSE [j \in DOMAIN sel |-> j = i]

\* selected_items of the menu opened on item i
MenuItems(sel, i) == {j \in DOMAIN sel : MenuSelection(sel, i)[j]}

\* the lines after change_color has called set_color on the drawn ones
RecolorLines(act, items, color) ==
    [j \in DOMAIN act |-> IF j \in items THEN [act[j] EXCEPT !.color = color] ELSE act[j]]

\* the annotation texts after change_color (only touched in the timing view)
RecolorAnnotations(ann, items, color, timing, axes) ==
    [j \in DOMAIN ann |->
        IF j \in items /\ timing /\ axes THEN [ann[j] EXCEPT !.color = color] ELSE ann[j]]

\* self.trace_colors after the loop of change_color
change_color(colors, items, color) ==
    [j \in DOMAIN colors \cup items |-> IF j \in items THEN color ELSE colors[j]]

\* colour menu of item i: "only affects clicked item"
ContextChangeColor(i, color) ==
    /\ Step
    /\ pc = "running"
    /\ selected' = MenuSelection(selected, i)
    /\ trace_colors' = change_color(trace_colors, {i}, color)
    /\ active_traces' = RecolorLines(active_traces, {i}, color)
    /\ timing_annotations' =
          RecolorAnnotations(timing_annotations, {i}, color, timing_check, has_axes)
    /\ yticks' = IF timing_check /\ has_axes
                 THEN update_timing_tick_colors(yticks, trace_visibility, trace_colors')
                 ELSE yticks
    /\ \E o \in SaveOutcomes :
          Persist(trace_names, NBList, trace_colors', trace_thickness, trace_style, o, "running")
    /\ UNCHANGED <<dataset, NBList, trace_names, trace_thickness, trace_style,
                   trace_visibility, timing_check, legend_check, curvars, funcvars,
                   clivars, timingctl, drawvars, xlim, ylim>>

\* self.trace_thickness after the loop of change_thickness
change_thickness(thick, items, t) ==
    [j \in DOMAIN thick \cup items |-> IF j \in items THEN t ELSE thick[j]]

ContextChangeThickness(i, t) ==
    /\ Step
    /\ pc = "running"
    /\ selected' = MenuSelection(selected, i)
    /\ LET items == MenuItems(selected, i)
       IN  /\ trace_thickness' = change_thickness(trace_thickness, items, t)
           /\ active_traces' =
                 [j \in DOMAIN active_traces |->
                     IF j \in items THEN [active_traces[j] EXCEPT !.linewidth = t]
                     ELSE active_traces[j]]
    /\ \E o \in SaveOutcomes :
          Persist(trace_names, NBList, trace_colors, trace_thickness', trace_style, o, "running")
    /\ UNCHANGED <<dataset, NBList, trace_names, trace_colors, trace_style,
                   trace_visibility, timing_annotations, timing_check, legend_check,
                   curvars, funcvars, clivars, timingctl, drawvars, axesvars>>

\* change_style from item k of the list on: the style dict, the lines, and whether
\* the loop left through "self.refresh_plot(); return"
RECURSIVE change_style(_, _, _, _, _)
change_style(items, style, k, st, act) ==
    IF k > Len(items)
    THEN [style |-> st, active |-> act, early |-> FALSE]
    ELSE LET idx == items[k]
             st2 == Put(st, idx, style)
         IN  IF idx \in DOMAIN act
             THEN IF style = "steps-post"
                  THEN [style |-> st2,
                        active |-> refresh_plot(trace_visibility, trace_colors,
                                                trace_thickness, st2, timing_check, plot_type),
                        early |-> TRUE]
                  ELSE change_style(items, style, k + 1, st2,
                                    [act EXCEPT ![idx].linestyle = style])
             ELSE change_style(items, style, k + 1, st2, act)

\* style menu of item i: the selected items are handled in the order the list
\* widget returns them
ContextChangeStyle(i, style) ==
    /\ Step
    /\ pc = "running"
    /\ selected' = MenuSelection(selected, i)
    /\ \E items \in Orderings(MenuItems(selected, i)) :
       LET r == change_style(items, style, 1, trace_style, active_traces)
       IN  /\ trace_style' = r.style
           /\ active_traces' = r.active
           /\ IF r.early
              THEN /\ RefreshSurface
                   /\ RefreshData(trace_visibility, timing_check, threshold_spinbox, vertical_spacing)
                   /\ RefreshAxes(trace_visibility, trace_colors, trace_names, timing_check, vertical_spacing)
                   /\ timing_annotations' =
                         refresh_annotations(timing_annotations, trace_visibility,
                                             trace_colors, timing_check)
                   /\ UNCHANGED <<pc, diskvars>>
              ELSE /\ KeepSurface
                   /\ KeepData
                   /\ UNCHANGED timing_annotations
                   /\ \E o \in SaveOutcomes :
                         Persist(trace_names, NBList, trace_colors, trace_thickness,
                                 r.style, o, "running")
    /\ UNCHANGED <<dataset, NBList, trace_names, trace_colors, trace_thickness,
                   trace_visibility, timing_check, legend_check, cursor_positions,
                   cursor_labels, delta_label, measure_label, last_given, funcvars, clivars, timingctl>>

\* a rename that accepts whatever the dialog returns
rename_trace_unchecked(names, nblist, index, new_name, ok) ==
    IF ok THEN Put(names, index, new_name) ELSE names

\* self.trace_names after rename_trace(item index) with the dialog's answer
rename_trace(names, nblist, index, new_name, ok) ==
    IF ok /\ new_name # "" /\ new_name # NameOf(names, nblist, index)
    THEN Put(names, index, new_name)
    ELSE names

\* "Rename..." is offered only when exactly one item is selected
ContextRename(i, new_name, ok) ==
    /\ Step
    /\ pc = "running"
    /\ Cardinality(MenuItems(selected, i)) = 1
    /\ selected' = MenuSelection(selected, i)
    /\ trace_names' = rename_trace(trace_names, NBList, i, new_name, ok)
    /\ IF trace_names' # trace_names
       THEN /\ NBList' = [NBList EXCEPT ![i] = new_name]
            /\ IF legend_check
               THEN /\ active_traces' = refresh_plot(trace_visibility, trace_colors,
                                                     trace_thickness, trace_style,
                                                     timing_check, plot_type)
                    /\ timing_annotations' =
                          refresh_annotations(timing_annotations, trace_visibility,
                                              trace_colors, timing_check)
                    /\ RefreshSurface
                    /\ RefreshData(trace_visibility, timing_check, threshold_spinbox, vertical_spacing)
                    /\ RefreshAxes(trace_visibility, trace_colors, trace_names', timing_check, vertical_spacing)
               ELSE /\ UNCHANGED <<active_traces, timing_annotations>>
                    /\ KeepSurface
                    /\ KeepData
       ELSE /\ UNCHANGED <<NBList, active_traces, timing_annotations>>
            /\ KeepSurface
            /\ KeepData
    /\ UNCHANGED <<pc, dataset, trace_colors, trace_thickness, trace_style,
                   trace_visibility, timing_check, legend_check, diskvars,
                   cursor_positions, cursor_labels, delta_label, measure_label,
                   last_given, funcvars, clivars, timingctl>>

\* the lines after toggle_trace_visibility(items): Hide/Show of the drawn lines
toggle_trace_visibility(act, items) ==
    LET any_visible == \E j \in items : j \in DOMAIN act /\ act[j].visible
    IN  [j \in DOMAIN act |->
            IF j \in items THEN [act[j] EXCEPT !.visible = ~any_visible] ELSE act[j]]

ContextToggleVisibility(i) ==
    /\ Step
    /\ pc = "running"
    /\ selected' = MenuSelection(selected, i)
    /\ active_traces' = toggle_trace_visibility(active_traces, MenuItems(selected, i))
    /\ UNCHANGED <<pc, dataset, NBList, trace_names, trace_colors, trace_thickness,
                   trace_style, trace_visibility, timing_annotations, timing_check,
                   legend_check, diskvars, curvars, funcvars, clivars, timingctl, drawvars, axesvars>>

\* the menu is opened on item i and closed without choosing an entry
ContextDismiss(i) ==
    /\ Step
    /\ pc = "running"
    /\ selected' = MenuSelection(selected, i)
    /\ UNCHANGED <<pc, dataset, NBList, trace_names, trace_colors, trace_thickness,
                   trace_style, trace_visibility, active_traces, timing_annotations,
                   timing_check, legend_check, diskvars, curvars, funcvars, clivars, timingctl, drawvars, axesvars>>

----------------------------------------------------------------------------
(* Display options *)

\* refresh_plot with the registry as it is
RefreshAll(timing) ==
    /\ active_traces' = refresh_plot(trace_visibility, trace_colors, trace_thickness,
                                     trace_style, timing, plot_type)
    /\ timing_annotations' =
          refresh_annotations(timing_annotations, trace_visibility, trace_colors, timing)
    /\ RefreshSurface
    /\ RefreshData(trace_visibility, timing, threshold_spinbox, vertical_spacing)
    /\ RefreshAxes(trace_visibility, trace_colors, trace_names, timing, vertical_spacing)

OnTimingViewChanged ==
    /\ Step
    /\ pc = "running"
    /\ timing_check' = ~timing_check
    /\ RefreshAll(timing_check')
    /\ UNCHANGED <<pc, dataset, NBList, trace_names, trace_colors, trace_thickness,
                   trace_style, trace_visibility, selected, legend_check, diskvars,
                   cursor_positions, cursor_labels, delta_label, measure_label,
                   last_given, funcvars, clivars, timingctl>>

ToggleLegend ==
    /\ Step
    /\ pc = "running"
    /\ legend_check' = ~legend_check
    /\ RefreshAll(timing_check)
    /\ UNCHANGED <<pc, dataset, NBList, trace_names, trace_colors, trace_thickness,
                   trace_style, trace_visibility, selected, timing_check, diskvars,
                   cursor_positions, cursor_labels, delta_label, measure_label,
                   last_given, funcvars, clivars, timingctl>>

----------------------------------------------------------------------------
(* Teardown and the next session *)

CloseEvent ==
    /\ Step
    /\ pc = "running"
    /\ \E o \in SaveOutcomes :
          Persist(trace_names, NBList, trace_colors, trace_thickness, trace_style, o, "closed")
    /\ UNCHANGED <<dataset, regvars, curvars, funcvars, clivars, timingctl, drawvars, axesvars>>

\* plotWindow.__init__ on the dataset: the provider delivers its own names
Construct ==
    /\ pc' = "running"
    /\ config' = load_config(config_file)
    /\ NBList' = NBList0
    /\ trace_names' = NBList0
    /\ trace_colors' = PopulateColors(config', NBList0)
    /\ trace_thickness' = PopulateThickness(config', NBList0)
    /\ trace_style' = PopulateStyle(config', NBList0)
    /\ trace_visibility' = [i \in Indices |-> FALSE]
    /\ selected' = [i \in Indices |-> FALSE]
    /\ active_traces' = EmptyDict
    /\ timing_annotations' = EmptyDict
    /\ timing_check' = FALSE
    /\ legend_check' = FALSE
    /\ cursor_lines' = << >>
    /\ cursor_positions' = << >>
    /\ has_axes' = FALSE
    /\ axes_cursors' = EmptyBag
    /\ cursor_labels' = << << >>, << >> >>
    /\ delta_label' = << >>
    /\ measure_label' = << >>
    /\ last_given' = << << >>, << >> >>
    /\ func_tokens' = << >>
    /\ func_result' = [status |-> "none", series |-> << >>]
    /\ threshold_spinbox' = 0
    /\ threshold_touched' = FALSE
    /\ vertical_spacing' = DEFAULT_VERTICAL_SPACING
    /\ logic_threshold' = << >>
    /\ voltage_range' = << >>
    /\ xlabel' = ""
    /\ line_data' = EmptyDict
    /\ yticks' = << >>
    /\ xlim' = AutoLimits
    /\ ylim' = AutoLimits
    /\ UNCHANGED <<dataset, config_file, tmp_file>>

\* the next session on the same dataset
Open ==
    /\ Step
    /\ pc \in {"closed", "crashed"}
    /\ Construct
    /\ UNCHANGED clivars

----------------------------------------------------------------------------
(* The registry and its persistence *)

Next ==
    \/ \E i \in Indices : OnWaveformToggle(i)
    \/ SelectAllWaveforms
    \/ DeselectAllWaveforms
    \/ ClearPlot
    \/ \E i \in Indices, c \in ColorChoices : ContextChangeColor(i, c)
    \/ \E i \in Indices, t \in ThicknessChoices : ContextChangeThickness(i, t)
    \/ \E i \in Indices, st \in StyleChoices : ContextChangeStyle(i, st)
    \/ \E i \in Indices, nm \in RenameInputs, ok \in BOOLEAN : ContextRename(i, nm, ok)
    \/ \E i \in Indices : ContextToggleVisibility(i)
    \/ \E i \in Indices : ContextDismiss(i)
    \/ OnTimingViewChanged
    \/ ToggleLegend
    \/ CloseEvent
    \/ Open

Spec == Init /\ [][Next]_vars

----------------------------------------------------------------------------
(* Cursor measurement *)

\* color = 'red' if cursor_num == 0 else 'blue'
CursorColor(cursor_num) == IF cursor_num = 0 THEN "red" ELSE "blue"

Marker(color, x) == [color |-> color, x |-> x]

Abs(n) == IF n < 0 THEN -n ELSE n

\* the axes after "self.cursor_lines[cursor_num].remove()": an artist that a
\* refresh has already cleared away is no longer on the axes
RemoveMarker(axes, lines, cursor_num) ==
    IF cursor_num < Len(lines) /\ lines[cursor_num + 1].live
    THEN axes (-) SetToBag({Marker(lines[cursor_num + 1].color, lines[cursor_num + 1].x)})
    ELSE axes

\* the markers of cursor_lines[k..] that are still on the axes
RECURSIVE LiveMarkers(_, _)
LiveMarkers(lines, k) ==
    IF k > Len(lines) THEN EmptyBag
    ELSE (IF lines[k].live THEN SetToBag({Marker(lines[k].color, lines[k].x)}) ELSE EmptyBag)
         (+) LiveMarkers(lines, k + 1)

\* the list after "append if cursor_num >= len(list) else list[cursor_num] = v"
StoreAt(list, cursor_num, v) ==
    IF cursor_num >= Len(list)
    THEN Append(list, v)
    ELSE [list EXCEPT ![cursor_num + 1] = v]

\* a frequency that divides whatever the delta is
Frequency_unguarded(delta) == [num |-> 1, den |-> delta]

\* 1.0 / delta if delta != 0 else 0, as a fraction
Frequency(delta) ==
    IF delta # 0 THEN [num |-> 1, den |-> delta] ELSE [num |-> 0, den |-> 1]

\* on_canvas_click with the left (slot 0) or middle (slot 1) button at x_pos
SetCursor(cursor_num, x_pos) ==
    /\ Step
    /\ pc = "running"
    /\ has_axes
    /\ LET line == [color |-> CursorColor(cursor_num), x |-> x_pos, live |-> TRUE]
           positions == StoreAt(cursor_positions, cursor_num, x_pos)
       IN  /\ axes_cursors' = RemoveMarker(axes_cursors, cursor_lines, cursor_num)
                                 (+) SetToBag({Marker(line.color, line.x)})
           /\ cursor_lines' = StoreAt(cursor_lines, cursor_num, line)
           /\ cursor_positions' = positions
           /\ cursor_labels' = [cursor_labels EXCEPT ![cursor_num + 1] = <<x_pos>>]
           /\ IF Len(positions) >= 2
              THEN /\ delta_label' = << Abs(positions[2] - positions[1]) >>
                   /\ measure_label' =
                         IF plot_type = AC_ANALYSIS
                         THEN << Frequency(Abs(positions[2] - positions[1])) >>
                         ELSE measure_label
              ELSE UNCHANGED <<delta_label, measure_label>>
    /\ last_given' = [last_given EXCEPT ![cursor_num + 1] = <<x_pos>>]
    /\ UNCHANGED <<pc, dataset, regvars, diskvars, has_axes, funcvars, clivars, timingctl, drawvars, axesvars>>

\* clear_cursors (button, or the escape key)
ClearCursors ==
    /\ Step
    /\ pc = "running"
    /\ cursor_lines' = << >>
    /\ cursor_positions' = << >>
    /\ axes_cursors' = axes_cursors (-) LiveMarkers(cursor_lines, 1)
    /\ cursor_labels' = << << >>, << >> >>
    /\ delta_label' = << >>
    /\ measure_label' = << >>
    /\ last_given' = << << >>, << >> >>
    /\ UNCHANGED <<pc, dataset, regvars, diskvars, has_axes, funcvars, clivars, timingctl, drawvars, axesvars>>

NextCursor ==
    \/ \E n \in {0, 1}, x \in Positions : SetCursor(n, x)
    \/ ClearCursors
    \/ ToggleLegend
    \/ \E i \in Indices : OnWaveformToggle(i)

SpecCursor == Init /\ [][NextCursor]_vars

----------------------------------------------------------------------------
(* Properties of the cursor measurement *)

\* the position held by a slot: << >> when the slot holds none
SlotPosition(positions, n) == IF n < Len(positions) THEN << positions[n + 1] >> ELSE << >>

\* the markers of one colour on the axes (slot 0 draws red, slot 1 blue)
MarkersOf(axes, color) ==
    [m \in {mk \in BagToSet(axes) : mk.color = color} |-> axes[m]]

\* C2: once set_cursor has been called for slot 0 and for slot 1 since the last
\* clear, the delta label shows |pos1 - pos0| of the positions last given to them.
C2_DeltaOfBothSlots ==
    (last_given[1] # << >> /\ last_given[2] # << >>)
        => delta_label = << Abs(last_given[2][1] - last_given[1][1]) >>

\* C3: set_cursor(n, x) stores x in slot n, leaves exactly one marker of slot n
\* (at x), leaves the other slot's position and markers as they were, and there
\* are never more than two markers.
C3_SetCursorTouchesOnlyItsSlot ==
    [][\A n \in {0, 1}, x \in Positions :
          SetCursor(n, x) =>
            /\ SlotPosition(cursor_positions', n) = <<x>>
            /\ SlotPosition(cursor_positions', 1 - n) = SlotPosition(cursor_positions, 1 - n)
            /\ MarkersOf(axes_cursors', CursorColor(n)) = SetToBag({Marker(CursorColor(n), x)})
            /\ MarkersOf(axes_cursors', CursorColor(1 - n))
                  = MarkersOf(axes_cursors, CursorColor(1 - n))
            /\ BagCardinality(axes_cursors') <= 2]_vars

----------------------------------------------------------------------------
(* Properties of the registry and its persistence *)

\* the file holds a complete snapshot that agrees with the registry
Persisted(file, names, nblist, colors, thickness, style) ==
    /\ file.st = "complete"
    /\ file.obj.trace_colours = SnapshotMap(names, nblist, colors)
    /\ file.obj.trace_thickness = SnapshotMap(names, nblist, thickness)
    /\ file.obj.trace_style = SnapshotMap(names, nblist, style)

\* C1: in every reachable state every trace whose visible flag is true has an
\* assigned colour.
C1_VisibleHasColor ==
    \A i \in Indices : trace_visibility[i] => i \in DOMAIN trace_colors

\* a visible trace that has been renamed and recoloured
C1_Witness ==
    \E i \in Indices :
        /\ trace_visibility[i]
        /\ trace_names[i] # NBList0[i]
        /\ trace_colors[i] \in ColorChoices
        /\ trace_colors[i] # PaletteColor(i)

\* C4: change_color, change_thickness and change_style each set the value on
\* every given index and then persist the configuration (whenever the process
\* survives the call), for every value and whether or not the traces are drawn.
C4_BulkStylingAppliedAndPersisted ==
    [][/\ \A i \in Indices, c \in ColorChoices :
            (ContextChangeColor(i, c) /\ pc' = "running") =>
                /\ trace_colors'[i] = c
                /\ Persisted(config_file', trace_names', NBList', trace_colors',
                             trace_thickness', trace_style')
       /\ \A i \in Indices, t \in ThicknessChoices :
            (ContextChangeThickness(i, t) /\ pc' = "running") =>
                /\ \A j \in MenuItems(selected, i) : trace_thickness'[j] = t
                /\ Persisted(config_file', trace_names', NBList', trace_colors',
                             trace_thickness', trace_style')
       /\ \A i \in Indices, st \in StyleChoices :
            (ContextChangeStyle(i, st) /\ pc' = "running") =>
                /\ \A j \in MenuItems(selected, i) : trace_style'[j] = st
                /\ Persisted(config_file', trace_names', NBList', trace_colors',
                             trace_thickness', trace_style')]_vars

\* C5: closing (which saves) and opening the same dataset again gives every trace
\* whose name was unchanged its colour, thickness and style back, also when other
\* traces had been renamed.
C5_RoundTripKeepsUnrenamed ==
    [][(pc = "closed" /\ Open) =>
          \A i \in Indices :
              trace_names[i] = NBList0[i] =>
                  /\ trace_colors'[i] = trace_colors[i]
                  /\ trace_thickness'[i] = trace_thickness[i]
                  /\ trace_style'[i] = trace_style[i]]_vars

\* the names no trace of the dataset has, neither as loaded nor as renamed
UnknownNames(d) == {nm \in DOMAIN d : nm \notin Values(NBList0) \cup Values(trace_names)}

\* entries of d under unknown names are still in e, unchanged
Retained(d, e) == \A nm \in UnknownNames(d) : nm \in DOMAIN e /\ e[nm] = d[nm]

\* C6: entries of the configuration file under names that match no trace of the
\* dataset stay in the file with their value, whatever is saved.
C6_UnknownEntriesRetained ==
    [][(config_file.st = "complete" /\ config_file'.st = "complete") =>
          /\ Retained(config_file.obj.trace_colours, config_file'.obj.trace_colours)
          /\ Retained(config_file.obj.trace_thickness, config_file'.obj.trace_thickness)
          /\ Retained(config_file.obj.trace_style, config_file'.obj.trace_style)]_vars

\* C7: whatever happens during a save, the configuration file is never a partial
\* one: it is the complete previous snapshot or the complete new one.
C7_StagedPersistence ==
    [][/\ config_file'.st # "partial"
       /\ \/ config_file' = config_file
          \/ config_file' = Complete(config')]_vars

\* the process died in the middle of writing, next to a complete configuration file
C7_Witness ==
    /\ pc = "crashed"
    /\ tmp_file = Partial
    /\ config_file.st = "complete"
    /\ config_file.obj # config

\* C8: rename is a no-op for an empty or unchanged name; otherwise it sets that
\* trace's name and changes no other name, no colour, thickness, style or
\* visibility, and the set of indices stays the same.
C8_RenameChangesOnlyTheName ==
    [][\A i \in Indices, nm \in RenameInputs, ok \in BOOLEAN :
          ContextRename(i, nm, ok) =>
            /\ UNCHANGED <<trace_colors, trace_thickness, trace_style, trace_visibility>>
            /\ DOMAIN trace_names' = DOMAIN trace_names
            /\ \A j \in Indices \ {i} : trace_names'[j] = trace_names[j]
            /\ (nm = "" \/ nm = trace_names[i]) =>
                  UNCHANGED <<NBList, trace_names, active_traces, timing_annotations,
                              diskvars, curvars>>
            /\ (ok /\ nm # "" /\ nm # trace_names[i]) => trace_names'[i] = nm]_vars

\* a styled, visible trace carries a new name
C8_Witness ==
    \E i \in Indices :
        /\ trace_names[i] \notin {NBList0[i], ""}
        /\ trace_visibility[i]
        /\ trace_thickness[i] # DEFAULT_LINE_THICKNESS

\* C9: clear_plot sets the visible flag of every trace to false and leaves every
\* colour, thickness, style and name as it was.
C9_ClearPlotKeepsStyling ==
    [][ClearPlot =>
          /\ \A i \in Indices : ~trace_visibility'[i]
          /\ UNCHANGED <<trace_colors, trace_thickness, trace_style, trace_names>>]_vars

\* the plot was cleared in the timing view: nothing is visible, no annotation is
\* left, and a recoloured trace still has its colour
C9_Witness ==
    /\ pc = "running"
    /\ timing_check
    /\ timing_annotations = EmptyDict
    /\ \A i \in Indices : ~trace_visibility[i]
    /\ \E i \in Indices : trace_colors[i] \in ColorChoices /\ trace_colors[i] # PaletteColor(i)

----------------------------------------------------------------------------
(* Expression evaluation (plot_function) *)

RECURSIVE GCD(_, _)
GCD(a, b) == IF b = 0 THEN a ELSE GCD(b, a % b)

\* numbers are fractions in lowest terms with a positive denominator
Frac(n, d) ==
    LET g == GCD(Abs(n), Abs(d))
        sg == IF d < 0 THEN -1 ELSE 1
    IN  [num |-> sg * (n \div g), den |-> sg * (d \div g)]

\* str(sample) read back by eval as a number
Num(v) == Frac(v, 1)

Floor(q) == q.num \div q.den

RECURSIVE IntPow(_, _)
IntPow(b, e) == IF e = 0 THEN 1 ELSE b * IntPow(b, e - 1)

\* the Python binary arithmetic operators eval knows among the tokens tried
PyArithmeticOps == {"+", "-", "*", "/", "//", "%", "**"}

\* a op b as Python computes it on numbers: the value, or the ArithmeticError
\* ("**" is only applied to whole, non-negative numbers: the samples are such)
Apply(op, a, b) ==
    CASE op = "+" -> [ok |-> TRUE, val |-> Frac(a.num * b.den + b.num * a.den, a.den * b.den)]
      [] op = "-" -> [ok |-> TRUE, val |-> Frac(a.num * b.den - b.num * a.den, a.den * b.den)]
      [] op = "*" -> [ok |-> TRUE, val |-> Frac(a.num * b.num, a.den * b.den)]
      [] op = "/" -> IF b.num = 0 THEN [ok |-> FALSE, val |-> Num(0)]
                     ELSE [ok |-> TRUE, val |-> Frac(a.num * b.den, a.den * b.num)]
      [] op = "//" -> IF b.num = 0 THEN [ok |-> FALSE, val |-> Num(0)]
                      ELSE [ok |-> TRUE, val |-> Num(Floor(Frac(a.num * b.den, a.den * b.num)))]
      [] op = "%" -> IF b.num = 0 THEN [ok |-> FALSE, val |-> Num(0)]
                     ELSE LET q == Floor(Frac(a.num * b.den, a.den * b.num))
                          IN  [ok |-> TRUE,
                               val |-> Frac(a.num * b.den - q * b.num * a.den, a.den * b.den)]
      [] op = "**" -> [ok |-> TRUE, val |-> Num(IntPow(a.num, b.num))]

\* expression e (numbers at odd places, operators at even ones) with the
\* operation at operator place p carried out
Reduce(e, p, v) ==
    [k \in 1 .. (Len(e) - 2) |->
        IF k < p - 1 THEN e[k] ELSE IF k = p - 1 THEN v ELSE e[k + 2]]

OperatorPlaces(e) == {p \in 1 .. Len(e) : p % 2 = 0}

\* the operator eval carries out first: the rightmost "**", else the leftmost of
\* * / // %, else the leftmost of + -
NextPlace(e) ==
    LET pow == {p \in OperatorPlaces(e) : e[p] = "**"}
        mul == {p \in OperatorPlaces(e) : e[p] \in {"*", "/", "//", "%"}}
        add == OperatorPlaces(e)
    IN  IF pow # {} THEN Max(pow)
        ELSE IF mul # {} THEN CHOOSE p \in mul : \A r \in mul : p <= r
        ELSE CHOOSE p \in add : \A r \in add : p <= r

\* eval(expression_string): "syntax" when the string is no Python expression,
\* "arith" for an ArithmeticError, else the value
RECURSIVE PyEval(_)
PyEval(e) ==
    IF \E p \in OperatorPlaces(e) : e[p] \notin PyArithmeticOps
    THEN [status |-> "syntax", val |-> Num(0)]
    ELSE IF Len(e) = 1 THEN [status |-> "ok", val |-> e[1]]
    ELSE LET p == NextPlace(e)
             r == Apply(e[p], e[p - 1], e[p + 1])
         IN  IF r.ok THEN PyEval(Reduce(e, p, r.val))
             ELSE [status |-> "arith", val |-> Num(0)]

\* function_parts: the text split at blanks, one trailing '' dropped
function_parts(tokens) ==
    IF Len(tokens) > 0 /\ tokens[Len(tokens)] = ""
    THEN SubSeq(tokens, 1, Len(tokens) - 1)
    ELSE tokens

OperandPlaces(parts) == {p \in 1 .. Len(parts) : p % 2 = 1}

\* a lookup that takes an unknown name for the first trace
FindTrace_lenient(nblist, name) ==
    IF \E j \in DOMAIN nblist : nblist[j] = name
    THEN CHOOSE j \in DOMAIN nblist :
            nblist[j] = name /\ \A k \in DOMAIN nblist : nblist[k] = name => j <= k
    ELSE 0

\* index of the first trace of NBList called name, or -1
FindTrace(nblist, name) ==
    IF \E j \in DOMAIN nblist : nblist[j] = name
    THEN CHOOSE j \in DOMAIN nblist :
            nblist[j] = name /\ \A k \in DOMAIN nblist : nblist[k] = name => j <= k
    ELSE -1

\* a substitution that reads every operand from the first trace
Substitute_first(parts, indices, j) ==
    [p \in 1 .. Len(parts) |->
        IF p % 2 = 1 THEN Num(SampleData[indices[1]][j]) ELSE parts[p]]

\* expression_parts for sample j: operand places hold str(sample)
Substitute(parts, indices, j) ==
    [p \in 1 .. Len(parts) |->
        IF p % 2 = 1 THEN Num(SampleData[indices[(p + 1) \div 2]][j]) ELSE parts[p]]

\* the loop over the samples from sample j on: the series so far, or the fault
RECURSIVE EvaluateFrom(_, _, _, _)
EvaluateFrom(parts, indices, j, acc) ==
    IF j > Len(SampleData[indices[1]])
    THEN [status |-> "evaluated", series |-> acc]
    ELSE LET r == PyEval(Substitute(parts, indices, j))
         IN  IF r.status = "ok"
             THEN EvaluateFrom(parts, indices, j + 1, Append(acc, r.val))
             ELSE IF r.status = "arith"
             THEN [status |-> "arithmetic_warning", series |-> << >>]
             ELSE [status |-> "exception", series |-> << >>]

\* what plot_function does with the text: the warning it shows, the exception
\* that leaves it, or the series it hands to axes.plot
plot_function(tokens, nblist, volts, axes) ==
    LET parts == function_parts(tokens)
        found == [p \in OperandPlaces(parts) |-> FindTrace(nblist, parts[p])]
        places == {p \in OperandPlaces(parts) : found[p] # -1}
        \* trace_indices: the indices found, in the order of the operands
        indices == [k \in 1 .. Cardinality(places) |->
                      found[CHOOSE p \in places : Cardinality({r \in places : r < p}) = k - 1]]
    IN  IF Len(parts) <= 2
        THEN [status |-> "too_few_warning", series |-> << >>]
        ELSE IF Len(indices) # (Len(parts) \div 2) + 1
        THEN [status |-> "operand_warning", series |-> << >>]
        ELSE IF Len(parts) = 3 /\ parts[2] = "vs"
        THEN IF axes
             THEN [status |-> "vs_plotted",
                   series |-> [j \in 1 .. Len(SampleData[indices[2]]) |->
                                  Num(SampleData[indices[2]][j])]]
             ELSE [status |-> "vs_no_axes", series |-> << >>]
        ELSE IF (\E k \in 1 .. Len(indices) : indices[k] < volts)
                /\ (\E k \in 1 .. Len(indices) : indices[k] >= volts)
        THEN [status |-> "mixed_warning", series |-> << >>]
        ELSE LET r == EvaluateFrom(parts, indices, 1, << >>)
             IN  IF r.status = "evaluated" /\ axes
                 THEN [status |-> "plotted", series |-> r.series]
                 ELSE IF r.status = "evaluated"
                 THEN [status |-> "evaluated_no_axes", series |-> << >>]
                 ELSE r

\* the "Plot Function" button
PlotFunction ==
    /\ Step
    /\ pc = "running"
    /\ func_result' = plot_function(func_tokens, NBList, volts_length, has_axes)
    /\ UNCHANGED <<pc, dataset, regvars, diskvars, curvars, func_tokens, timingctl, drawvars, axesvars,
                   clivars>>

\* the widget after construction, with a text typed into the function box
InitFunc ==
    /\ ops = 0
    /\ pc = "running"
    /\ plot_type = TRANSIENT_ANALYSIS
    /\ volts_length \in {1, 2}
    /\ config_file = Absent
    /\ tmp_file = Absent
    /\ config = load_config(config_file)
    /\ NBList = NBList0
    /\ trace_names = NBList0
    /\ trace_colors = PopulateColors(config, NBList0)
    /\ trace_thickness = PopulateThickness(config, NBList0)
    /\ trace_style = PopulateStyle(config, NBList0)
    /\ trace_visibility = [i \in Indices |-> FALSE]
    /\ selected = [i \in Indices |-> FALSE]
    /\ active_traces = EmptyDict
    /\ timing_annotations = EmptyDict
    /\ timing_check = FALSE
    /\ legend_check = FALSE
    /\ NoCursors
    /\ func_tokens \in FuncInputs
    /\ func_result = [status |-> "none", series |-> << >>]
    /\ x_data = DefaultAxis
    /\ NoTiming
    /\ DefaultLaunch

NextFunc ==
    \/ PlotFunction
    \/ \E i \in Indices, nm \in RenameInputs, ok \in BOOLEAN : ContextRename(i, nm, ok)
    \/ ToggleLegend

SpecFunc == InitFunc /\ [][NextFunc]_vars

\* the tokens at the operator places of the expression last evaluated
OperatorTokens == {function_parts(func_tokens)[p] : p \in OperatorPlaces(function_parts(func_tokens))}

\* C10: an expression with anything but + - * / at an operator place is never
\* evaluated: no derived series comes out of it.
C10_OnlyFourOperators ==
    func_result.status \in {"plotted", "evaluated_no_axes"}
        => OperatorTokens \subseteq {"+", "-", "*", "/"}

\* the outcomes in which plot_function returns without a warning
Completed == {"plotted", "evaluated_no_axes", "vs_plotted", "vs_no_axes"}

\* C11: no expression fault lets an exception leave plot_function; a call that
\* ends in a fault emits no series, and no call changes trace or cursor state.
C11_FaultsRecoveredLocally ==
    [][PlotFunction =>
          /\ func_result'.status # "exception"
          /\ (func_result'.status \notin Completed => func_result'.series = << >>)
          /\ UNCHANGED <<regvars, curvars>>]_vars

\* index of the first trace that carries the name
FirstNamed(name) == {a \in Indices : NBList[a] = name /\ \A k \in Indices : k < a => NBList[k] # name}

\* C12: for "a + b" and "a / b" over two traces of the same kind (no zero in b
\* for "/"), drawn on existing axes, the series has one value per sample and
\* the value at sample j is a[j] + b[j], respectively a[j] / b[j].
C12_SeriesIsPointwise ==
    [][(PlotFunction /\ Len(function_parts(func_tokens)) = 3) =>
          \A op \in {"+", "/"} :
          \A a \in FirstNamed(function_parts(func_tokens)[1]) :
          \A b \in FirstNamed(function_parts(func_tokens)[3]) :
              ( /\ function_parts(func_tokens)[2] = op
                /\ (a < volts_length) = (b < volts_length)
                /\ has_axes
                /\ (op = "/" => \A j \in 1 .. Len(SampleData[b]) : SampleData[b][j] # 0) )
              => /\ func_result'.status = "plotted"
                 /\ Len(func_result'.series) = Len(SampleData[a])
                 /\ \A j \in 1 .. Len(SampleData[a]) :
                       LET v == func_result'.series[j]
                           x == SampleData[a][j]
                           y == SampleData[b][j]
                       IN  /\ v.den > 0
                           /\ op = "+" => v.num = (x + y) * v.den
                           /\ op = "/" => v.num * y = x * v.den]_vars

\* the sum of two different traces has been plotted
C12_Witness ==
    /\ func_result.status = "plotted"
    /\ function_parts(func_tokens) = <<"v(in)", "+", "i(r1)">>
    /\ func_result.series = <<Num(6), Num(3), Num(4)>>

\* C13: a text of fewer than 3 tokens, or with a token that is no current trace
\* name at an operand place (1st, 3rd, ...), ends in a warning before any sample
\* is evaluated.
C13_RejectedBeforeEvaluation ==
    [][( /\ PlotFunction
         /\ \/ Len(func_tokens) < 3
            \/ \E p \in 1 .. Len(func_tokens) : p % 2 = 1 /\ func_tokens[p] \notin Values(NBList) )
          => /\ func_result'.status \in {"too_few_warning", "operand_warning"}
             /\ func_result'.series = << >>]_vars

\* a text of three tokens was turned down for an operand that names no trace
C13_Witness ==
    /\ func_result.status = "operand_warning"
    /\ Len(function_parts(func_tokens)) = 3
    /\ function_parts(func_tokens)[2] = "+"
    /\ function_parts(func_tokens)[1] \in Values(NBList)

----------------------------------------------------------------------------
(* Properties of the frequency measurement *)

----------------------------------------------------------------------------
(* Colour allocation on demand *)

\* colours the registry may hold when assign_trace_color is called: the first
\* palette colours and one that is not in the palette
HeldColors == {VIBRANT_COLOR_PALETTE[1], VIBRANT_COLOR_PALETTE[2], VIBRANT_COLOR_PALETTE[3], "#abcdef"}

\* the registries assign_trace_color is tried on: any part of the traces has a colour
ColorRegistries == UNION {[D -> HeldColors] : D \in SUBSET Indices}

InitColor ==
    /\ ops = 0
    /\ pc = "running"
    /\ plot_type = TRANSIENT_ANALYSIS
    /\ volts_length = 1
    /\ config_file = Absent
    /\ tmp_file = Absent
    /\ config = load_config(config_file)
    /\ NBList = NBList0
    /\ trace_names = NBList0
    /\ trace_colors \in ColorRegistries
    /\ trace_thickness = PopulateThickness(config, NBList0)
    /\ trace_style = PopulateStyle(config, NBList0)
    /\ trace_visibility = [i \in Indices |-> FALSE]
    /\ selected = [i \in Indices |-> FALSE]
    /\ active_traces = EmptyDict
    /\ timing_annotations = EmptyDict
    /\ timing_check = FALSE
    /\ legend_check = FALSE
    /\ NoCursors
    /\ NoFunction
    /\ x_data = DefaultAxis
    /\ NoTiming
    /\ DefaultLaunch

NextColor ==
    \/ \E i \in Indices : OnWaveformToggle(i)
    \/ SelectAllWaveforms
    \/ \E i \in Indices, c \in ColorChoices : ContextChangeColor(i, c)

SpecColor == InitColor /\ [][NextColor]_vars

\* C15: a trace shown without a colour gets the first palette colour, in palette
\* order, that no trace of the registry holds; the colours of the other traces
\* stay as they are.
C15_FirstUnusedPaletteColor ==
    [][\A i \in Indices :
          (OnWaveformToggle(i) /\ ~selected[i] /\ i \notin DOMAIN trace_colors) =>
            /\ i \in DOMAIN trace_colors'
            /\ \E k \in 1 .. Len(VIBRANT_COLOR_PALETTE) :
                  /\ trace_colors'[i] = VIBRANT_COLOR_PALETTE[k]
                  /\ VIBRANT_COLOR_PALETTE[k] \notin Values(trace_colors)
                  /\ \A m \in 1 .. (k - 1) : VIBRANT_COLOR_PALETTE[m] \in Values(trace_colors)
            /\ \A j \in DOMAIN trace_colors : trace_colors'[j] = trace_colors[j]]_vars

\* the first palette colour was taken, so the trace shown got the second one
C15_Witness ==
    /\ \E i \in Indices :
          /\ trace_visibility[i]
          /\ i \in DOMAIN trace_colors /\ trace_colors[i] = VIBRANT_COLOR_PALETTE[2]
          /\ \E j \in DOMAIN trace_colors \ {i} : trace_colors[j] = VIBRANT_COLOR_PALETTE[1]
    /\ config_file.st = "complete"
    /\ ops = 1

----------------------------------------------------------------------------
(* Digital timing view *)

\* the threshold control is given a new value (the controls of the timing box
\* are enabled only while the timing view is on)
OnThresholdChanged(value) ==
    /\ Step
    /\ pc = "running"
    /\ timing_check
    /\ value # threshold_spinbox
    /\ threshold_spinbox' = value
    /\ threshold_touched' = TRUE
    /\ active_traces' = refresh_plot(trace_visibility, trace_colors, trace_thickness,
                                     trace_style, timing_check, plot_type)
    /\ timing_annotations' =
          refresh_annotations(timing_annotations, trace_visibility, trace_colors, timing_check)
    /\ RefreshSurface
    /\ RefreshData(trace_visibility, timing_check, value, vertical_spacing)
    /\ RefreshAxes(trace_visibility, trace_colors, trace_names, timing_check, vertical_spacing)
    /\ UNCHANGED <<pc, dataset, NBList, trace_names, trace_colors, trace_thickness,
                   trace_style, trace_visibility, selected, timing_check, legend_check,
                   diskvars, cursor_positions, cursor_labels, delta_label, measure_label,
                   last_given, funcvars, clivars, vertical_spacing>>

\* the spacing slider is moved to a new value
OnSpacingChanged(value) ==
    /\ Step
    /\ pc = "running"
    /\ timing_check
    /\ value # vertical_spacing
    /\ vertical_spacing' = value
    /\ active_traces' = refresh_plot(trace_visibility, trace_colors, trace_thickness,
                                     trace_style, timing_check, plot_type)
    /\ timing_annotations' =
          refresh_annotations(timing_annotations, trace_visibility, trace_colors, timing_check)
    /\ RefreshSurface
    /\ RefreshData(trace_visibility, timing_check, threshold_spinbox, value)
    /\ RefreshAxes(trace_visibility, trace_colors, trace_names, timing_check, value)
    /\ UNCHANGED <<pc, dataset, NBList, trace_names, trace_colors, trace_thickness,
                   trace_style, trace_visibility, selected, timing_check, legend_check,
                   diskvars, cursor_positions, cursor_labels, delta_label, measure_label,
                   last_given, funcvars, clivars, threshold_spinbox, threshold_touched>>

\* "Reset View" of the canvas menu: x limits over the axis with a margin of 5 %
\* of its span; y limits from the largest sample of all visible traces in the
\* timing view, else over their samples with a margin of 10 %
ResetView ==
    /\ Step
    /\ pc = "running"
    /\ IF VisibleIndices(trace_visibility) = {} \/ ~has_axes
       THEN UNCHANGED <<xlim, ylim>>
       ELSE LET xs    == {x_data[j] : j \in 1 .. Len(x_data)}
                ys    == UNION {{Samples(x_data, i)[j] : j \in 1 .. Len(x_data)} :
                                   i \in VisibleIndices(trace_visibility)}
                y_min == Min(ys)
                y_max == Max(ys)
                n     == Cardinality(VisibleIndices(trace_visibility))
            IN  /\ xlim' = [auto |-> FALSE, lo |-> [m |-> Min(xs), e |-> -9],
                            hi |-> [m |-> Max(xs), e |-> -9], margin |-> 5]
                /\ ylim' = IF timing_check
                           THEN [auto |-> FALSE, lo |-> -50 * y_max,
                                 hi |-> n * vertical_spacing * y_max + 10 * y_max,
                                 margin |-> 0]
                           ELSE [auto |-> FALSE, lo |-> 100 * y_min, hi |-> 100 * y_max,
                                 margin |-> 10]
    /\ UNCHANGED <<pc, dataset, regvars, diskvars, curvars, funcvars, clivars, timingctl,
                   drawvars, yticks>>

\* the widget after construction on a dataset with one of the axes tried
InitTiming ==
    /\ ops = 0
    /\ pc = "running"
    /\ plot_type = TRANSIENT_ANALYSIS
    /\ volts_length \in {1, 2}
    /\ x_data \in AxisChoices
    /\ config_file = Absent
    /\ tmp_file = Absent
    /\ config = load_config(config_file)
    /\ NBList = NBList0
    /\ trace_names = NBList0
    /\ trace_colors = PopulateColors(config, NBList0)
    /\ trace_thickness = PopulateThickness(config, NBList0)
    /\ trace_style = PopulateStyle(config, NBList0)
    /\ trace_visibility = [i \in Indices |-> FALSE]
    /\ selected = [i \in Indices |-> FALSE]
    /\ active_traces = EmptyDict
    /\ timing_annotations = EmptyDict
    /\ timing_check = FALSE
    /\ legend_check = FALSE
    /\ NoCursors
    /\ NoFunction
    /\ NoTiming
    /\ DefaultLaunch

NextTiming ==
    \/ \E i \in Indices : OnWaveformToggle(i)
    \/ SelectAllWaveforms
    \/ OnTimingViewChanged
    \/ \E v \in ThresholdInputs : OnThresholdChanged(v)
    \/ \E v \in SpacingInputs : OnSpacingChanged(v)
    \/ ResetView

SpecTiming == InitTiming /\ [][NextTiming]_vars

\* lines are on the axes of a timing view
TimingDrawn == timing_check /\ line_data # EmptyDict

\* C16: after every refresh in the timing view the x data of each line are the
\* canonical axis times one of the scale factors, and a line drawn before and
\* after the refresh has the same x data: the scaling is never applied on top
\* of itself.
C16_ScalingIsIdempotent ==
    [][timing_check' =>
          \A i \in DOMAIN line_data' :
              /\ \E k \in {0, 3, 6, 9} :
                    line_data'[i].xdata = [j \in 1 .. Len(x_data) |-> [m |-> x_data[j], e |-> k - 9]]
              /\ (timing_check /\ i \in DOMAIN line_data) =>
                    line_data'[i].xdata = line_data[i].xdata]_vars

\* a nanosecond axis after the third refresh in a row
C16_Witness ==
    /\ TimingDrawn
    /\ ops = 3
    /\ xlabel = "ns"
    /\ threshold_touched
    /\ \A i \in DOMAIN line_data : line_data[i].xdata[Len(x_data)].e = 0

\* C17: the unit follows from span = last - first of the canonical axis (in ns:
\* below 1000 ns, below 10^6 us, below 10^9 ms, else s, a span on a threshold
\* taking the larger unit) and the x data carry the factor 1e9, 1e6, 1e3, 1 of
\* that unit; an axis of fewer than 2 samples is in seconds and unscaled.
C17_UnitFromSpan ==
    TimingDrawn =>
        LET n    == Len(x_data)
            span == x_data[n] - x_data[1]
            unit == IF n < 2 THEN "s"
                    ELSE IF span < 1000 THEN "ns"
                    ELSE IF span < 1000000 THEN "us"
                    ELSE IF span < 1000000000 THEN "ms"
                    ELSE "s"
            e    == CASE unit = "ns" -> 0 [] unit = "us" -> -3 [] unit = "ms" -> -6 [] unit = "s" -> -9
        IN  /\ xlabel = unit
            /\ \A i \in DOMAIN line_data : \A j \in 1 .. n :
                  line_data[i].xdata[j] = [m |-> x_data[j], e |-> e]

\* an axis whose span is exactly 1e-6 s is drawn in microseconds
C17_Witness ==
    /\ TimingDrawn
    /\ x_data = <<0, 500, 1000>>
    /\ xlabel = "us"

\* C18: in the timing view the threshold in effect is the value of the control
\* once the user has set one (other than the control's "Auto" minimum), and
\* 0.7 x globalMax otherwise, also while the control has never been touched.
C18_EffectiveThreshold ==
    TimingDrawn =>
        logic_threshold =
            << IF threshold_touched /\ threshold_spinbox # THRESHOLD_MINIMUM
               THEN threshold_spinbox
               ELSE 7 * GlobalMax(trace_visibility, volts_length, x_data) >>

\* C19: in the timing view the line of a visible trace with r visible traces of
\* higher index sits on the baseline r x spacing, spacing = vertical spacing x
\* globalMax: every y value is the baseline or the baseline plus globalMax.
C19_RankedBaselines ==
    TimingDrawn =>
        \A i \in DOMAIN line_data :
            LET vmax == GlobalMax(trace_visibility, volts_length, x_data)
                r    == Cardinality({k \in DOMAIN line_data : k > i})
                base == r * vertical_spacing * vmax
            IN  \A j \in 1 .. Len(x_data) :
                    line_data[i].ydata[j] \in {base, base + 100 * vmax}

\* two traces are stacked with a spacing the user has chosen
C19_Witness ==
    /\ TimingDrawn
    /\ DOMAIN line_data = Indices
    /\ vertical_spacing \in SpacingInputs
    /\ \E j \in 1 .. Len(x_data) :
          line_data[0].ydata[j] >= vertical_spacing * GlobalMax(trace_visibility, volts_length, x_data)

----------------------------------------------------------------------------
(* The retired theme field *)

\* C20: the configuration in memory never has a theme field, and no step that
\* writes the configuration file or the temporary file writes one.
C20_ThemeNeverRewritten ==
    [][/\ config'.theme = NoTheme
       /\ config_file' # config_file => config_file'.obj.theme = NoTheme
       /\ tmp_file' # tmp_file => tmp_file'.obj.theme = NoTheme]_vars

\* a configuration that came with a theme field has been saved without it
C20_Witness ==
    /\ config_file.st = "complete"
    /\ config_file.obj.experimental_acdc
    /\ config_file.obj.theme = NoTheme
    /\ "zz" \notin DOMAIN config_file.obj.trace_colours

----------------------------------------------------------------------------
(* The standalone program (plotting_utils.py) *)

\* main: parse sys.argv, construct the window with the result
Main ==
    /\ Step
    /\ pc = "starting"
    /\ file_path' = << parse_command_line_arguments(argv).file_path >>
    /\ project_name' = << parse_command_line_arguments(argv).project_name >>
    /\ Construct
    /\ UNCHANGED argv

\* the process before main has run: no window yet
NoWindow ==
    /\ ops = 0
    /\ pc = "starting"
    /\ file_path = << >>
    /\ project_name = << >>
    /\ plot_type = TRANSIENT_ANALYSIS
    /\ volts_length = 1
    /\ tmp_file = Absent
    /\ config = DefaultConfig
    /\ NBList = NBList0
    /\ trace_names = EmptyDict
    /\ trace_colors = EmptyDict
    /\ trace_thickness = EmptyDict
    /\ trace_style = EmptyDict
    /\ trace_visibility = EmptyDict
    /\ selected = EmptyDict
    /\ active_traces = EmptyDict
    /\ timing_annotations = EmptyDict
    /\ timing_check = FALSE
    /\ legend_check = FALSE
    /\ NoCursors
    /\ NoFunction
    /\ x_data = DefaultAxis
    /\ NoTiming

InitCli ==
    /\ argv \in ArgvInputs
    /\ config_file \in InitFiles
    /\ NoWindow

NextCli ==
    \/ Main
    \/ \E i \in Indices : OnWaveformToggle(i)

SpecCli == InitCli /\ [][NextCli]_vars

\* C21: the two positional arguments are taken independently: the window gets
\* the path given as first argument whether or not a label follows ('.' when no
\* argument is given), and the label given as second argument ('Test Project'
\* when there is none).
C21_ArgumentsIndependent ==
    pc = "running" =>
        /\ file_path = << IF Len(argv) >= 2 THEN argv[2] ELSE "." >>
        /\ project_name = << IF Len(argv) >= 3 THEN argv[3] ELSE "Test Project" >>

----------------------------------------------------------------------------
(* Properties of the axes of the timing view *)

\* C22: in the timing view the y tick of every drawn trace sits at
\* rank x spacing + globalMax / 2 (spacing = vertical spacing x globalMax), is
\* labelled with the trace's current display name and has its current colour,
\* whatever renames, colour changes and visibility changes came before.
C22_TicksFollowRegistry ==
    (pc = "running" /\ timing_check) =>
        \A i \in DOMAIN active_traces :
            LET r    == Rank(trace_visibility, i)
                vmax == GlobalMax(trace_visibility, volts_length, x_data)
            IN  /\ r \in DOMAIN yticks
                /\ yticks[r].y = r * vertical_spacing * vmax + 50 * vmax
                /\ yticks[r].label = NameOf(trace_names, NBList, i)
                /\ yticks[r].color = trace_colors[i]

\* C23: in the timing view every drawn sample of the trace of rank r is
\* r x spacing + globalMax when the raw sample is greater than the threshold and
\* r x spacing otherwise; a sample equal to the threshold is low.
C23_StrictBinarization ==
    TimingDrawn =>
        \A i \in DOMAIN line_data :
            LET vmax == GlobalMax(trace_visibility, volts_length, x_data)
                base == Rank(trace_visibility, i) * vertical_spacing * vmax
            IN  /\ Len(line_data[i].ydata) = Len(x_data)
                /\ \A j \in 1 .. Len(x_data) :
                      line_data[i].ydata[j] =
                          IF SampleData[i][j] * 10 > logic_threshold[1]
                          THEN base + 100 * vmax
                          ELSE base

\* a trace drawn with a threshold the user has set: a sample on the threshold
\* is drawn low, a sample above it high
C23_Witness ==
    /\ TimingDrawn
    /\ threshold_touched
    /\ \E i \in DOMAIN line_data : \E j, k \in 1 .. Len(x_data) :
          /\ SampleData[i][j] * 10 = logic_threshold[1]
          /\ line_data[i].ydata[j] = Rank(trace_visibility, i) * vertical_spacing
                                        * GlobalMax(trace_visibility, volts_length, x_data)
          /\ line_data[i].ydata[k] > line_data[i].ydata[j]

\* C24: in the timing view globalMax and globalMin are the largest and the
\* smallest sample of the candidate pool: of the visible voltage-like traces
\* (index < voltageCount) when there is one, of all visible traces otherwise.
\* Samples of a visible current-like trace next to a visible voltage-like one
\* do not enter them.
C24_RangeOverCandidatePool ==
    TimingDrawn =>
        LET visible == {i \in Indices : trace_visibility[i]}
            voltage == {i \in visible : i < volts_length}
            pool    == IF voltage # {} THEN voltage ELSE visible
            samples == {SampleData[i][j] : i \in pool, j \in 1 .. Len(x_data)}
        IN  /\ Len(voltage_range) = 2
            /\ voltage_range[1] \in samples
            /\ voltage_range[2] \in samples
            /\ \A v \in samples : voltage_range[1] <= v /\ v <= voltage_range[2]

\* a voltage-like and a current-like trace are drawn, and the range is the one
\* of the voltage-like trace although the current-like one goes beyond it
C24_Witness ==
    /\ TimingDrawn
    /\ volts_length = 1
    /\ DOMAIN line_data = Indices
    /\ Len(x_data) = 3
    /\ voltage_range = <<1, 4>>
    /\ \E j \in 1 .. 3 : SampleData[1][j] > 4
    /\ \E j \in 1 .. 3 : SampleData[1][j] < 1

----------------------------------------------------------------------------
(* Properties of the list selection *)

\* C25: in every reachable state the visible flag of a trace equals the selected
\* state of its list item, whatever item clicks, select-all, deselect-all,
\* clear-plot and context-menu openings came before.
C25_VisibleIsSelected ==
    pc = "running" => \A i \in Indices : trace_visibility[i] = selected[i]

----------------------------------------------------------------------------
(* Units on the x axis of the timing view *)

\* C26: after a refresh of the timing view the x limits of the axes, the x data
\* of every drawn trace and the x position of every final-value text are in the
\* same unit (the same power of ten of a second), for every axis span.
C26_OneUnitOnTheAxis ==
    TimingDrawn =>
        /\ ~xlim.auto
        /\ xlim.lo.e = xlim.hi.e
        /\ \A i \in DOMAIN line_data :
              /\ \A j \in 1 .. Len(x_data) : line_data[i].xdata[j].e = xlim.lo.e
              /\ i \in DOMAIN timing_annotations
              /\ timing_annotations[i].x.e = xlim.lo.e

----------------------------------------------------------------------------
(* Cursors across refreshes *)

\* C27: a refresh (a visibility toggle, a legend change) leaves every position
\* held in a cursor slot with a marker drawn at it on the axes, and leaves the
\* delta that is reported as it was.
C27_MarkersSurviveRefresh ==
    [][(ToggleLegend \/ \E i \in Indices : OnWaveformToggle(i)) =>
          /\ \A n \in 1 .. Len(cursor_positions') :
                \E mk \in BagToSet(axes_cursors') : mk.x = cursor_positions'[n]
          /\ delta_label' = delta_label]_vars

----------------------------------------------------------------------------
(* Default colours at dataset load *)

Injective(f) == \A a, b \in DOMAIN f : a # b => f[a] # f[b]

\* configuration files whose colours are pairwise distinct: entries for any of
\* the traces of the dataset and one more name, holding the first two palette
\* colours or two others
DistinctSnapshots ==
    LET names  == Values(NBList0) \cup {"zz"}
        colors == {VIBRANT_COLOR_PALETTE[1], VIBRANT_COLOR_PALETTE[2], "#abcdef", "#00ff00"}
    IN  {Complete([DefaultConfig EXCEPT !.trace_colours = f]) :
            f \in {g \in UNION {[D -> colors] : D \in SUBSET names} : Injective(g)}}

InitLoad ==
    /\ argv = <<ProgramName>>
    /\ config_file \in DistinctSnapshots
    /\ NoWindow

NextLoad ==
    \/ Main
    \/ \E i \in Indices : OnWaveformToggle(i)
    \/ SelectAllWaveforms

SpecLoad == InitLoad /\ [][NextLoad]_vars

\* C28: after the load of a dataset with a snapshot whose colours are pairwise
\* distinct, a trace that takes a default colour (its name has no entry in the
\* snapshot) holds a colour no other trace holds, as long as a palette colour
\* is left unused.
C28_DefaultColoursDistinct ==
    [][(Main /\ Injective(config_file.obj.trace_colours)) =>
          \A i \in Indices :
              ( /\ NBList'[i] \notin DOMAIN config_file.obj.trace_colours
                /\ \E k \in 1 .. Len(VIBRANT_COLOR_PALETTE) :
                      VIBRANT_COLOR_PALETTE[k] \notin Values(trace_colors') )
              => \A j \in Indices \ {i} : trace_colors'[j] # trace_colors'[i]]_vars

----------------------------------------------------------------------------
(* Reset view in the timing view *)

\* C29: in the timing view reset-view sets the y limits the last refresh has set
\* for the same visible traces: both come from the globalMax of the candidate
\* pool, also when voltage-like and current-like traces are visible together.
C29_ResetViewKeepsYLimits ==
    [][(ResetView /\ TimingDrawn /\ has_axes) =>
          /\ ~ylim'.auto
          /\ ylim' = ylim
          /\ ylim'.lo = -50 * GlobalMax(trace_visibility, volts_length, x_data)]_vars

----------------------------------------------------------------------------
(* The drawn state and the registry *)

\* C30: after any operation (Hide/Show from the context menu and every refresh
\* included) the series of a trace is shown on the surface if and only if the
\* visible flag of the trace is true.
C30_DrawnFollowsRegistry ==
    pc = "running" =>
        \A i \in Indices :
            (i \in DOMAIN active_traces /\ active_traces[i].visible) <=> trace_visibility[i]

====
